---- MODULE Spec2Model ----
(***************************************************************************)
(* A model of src/extractor.py: the batch extraction of spherical images   *)
(* and scan poses from E57 containers into <input_dir>/output.             *)
(*                                                                         *)
(* The state is the part of the file system the program reads and writes   *)
(* (the container files, the output directory, coords.csv, the image       *)
(* files), the progress bar widget, and the position of the one sequential *)
(* execution path inside extract_spherical_images / process_e57_file.      *)
(*                                                                         *)
(* Strings the program builds by concatenation are sequences of the pieces *)
(* it concatenates; a line of coords.csv is the sequence of its            *)
(* comma-separated fields; scan names and guids are atomic tokens.         *)
(***************************************************************************)
EXTENDS Integers, Sequences, FiniteSets, TLC

VARIABLES
    docs,                       \* disk: container path -> document stored in it
    file_paths,                 \* the selected paths handed to extract_spherical_images
    out_dir,                    \* disk: does <input_dir>/output exist
    coords,                     \* disk: coords.csv, [exists, lines]
    images,                     \* disk: image file name -> content, in the output directory
    bar,                        \* the Progressbar widget, [maximum, value]
    current_progress,           \* current_progress[0]
    pc,                         \* where the execution path stands
    file_idx,                   \* position of the for loop of extract_spherical_images
    e57_file,                   \* the document opened by process_e57_file
    spherical_representations,  \* the index built for e57_file
    scan_index,                 \* position of the for loop of process_e57_file
    image_result,               \* what process_image returned for the current scan
    error,                      \* the exception that ended the run, if any
    runs,                       \* number of runs started so far
    trace,                      \* history: what the current run did, in order
    coords0,                    \* history: coords.csv as the current run found or created it
    finished,                   \* history: one record per run that has ended
    ix_images,                  \* index check: the images2D collection given
    ix_dict,                    \* index check: the dictionary returned
    ix_done                     \* index check: has the function returned

vars == <<docs, file_paths, out_dir, coords, images, bar, current_progress, pc,
          file_idx, e57_file, spherical_representations, scan_index, image_result,
          error, runs, trace, coords0, finished, ix_images, ix_dict, ix_done>>

batch_vars == <<docs, file_paths, out_dir, coords, images, bar, current_progress, pc,
                file_idx, e57_file, spherical_representations, scan_index,
                image_result, error, runs, trace, coords0, finished>>

index_vars == <<ix_images, ix_dict, ix_done>>

(***************************************************************************)
(* Bounds of the model.                                                    *)
(***************************************************************************)
MaxFiles == 3           \* longest list of selected paths
MaxScans == 2           \* most scans in one document
MaxImages == 1          \* most images2D nodes in one document of a batch
MaxIndexImages == 2     \* most images2D nodes given to the index builder alone
MaxRuns == 2            \* runs of the batch against the same output directory

(***************************************************************************)
(* Program constants.                                                      *)
(***************************************************************************)
CanvasWidth == 8192
CanvasHeight == 4096
JpegQuality == 50
BarDefaultMaximum == 100

SeqUpTo(S, n) == UNION {[1..k -> S] : k \in 0..n}

Last(s) == s[Len(s)]

Max(S) == CHOOSE x \in S : \A y \in S : y <= x

Range(s) == {s[i] : i \in 1..Len(s)}

(***************************************************************************)
(* Paths.  A path is the sequence <<directory, stem, extension>>; every    *)
(* selectable file lies in the one input directory.                        *)
(***************************************************************************)
InputDir == "in"
PathA == <<InputDir, "a", ".e57">>
PathB == <<InputDir, "b", ".e57">>
PathMissing == <<InputDir, "m", ".e57">>
PathText == <<InputDir, "n", ".txt">>

\* What the file dialog can hand over, and the containers that are on disk.
InputPaths == {PathA, PathB, PathMissing, PathText}
ContainerFiles == {PathA, PathB}

\* str.endswith
EndsWith(path, suffix) == Len(path) > 0 /\ Last(path) = suffix

\* Path(p).parent / "output"
OutputPath(paths) == <<paths[1][1], "output">>

(***************************************************************************)
(* Documents.  A field that is not there is Absent; a guid field that is   *)
(* there holds a string, which may be empty.                               *)
(***************************************************************************)
Absent == "<absent>"
GuidValues == {"", "g1", "g2"}
ScanGuids == {"g1", "g2"}
Names == {"n1", "n2"}

\* An image blob of a spherical representation: not there, decodable, or not decodable.
Blobs == {Absent, "good", "corrupt"}

\* image2D['sphericalRepresentation']: no such key, an empty node, or a node with blobs.
\* NoneValue is what dict.get returns for a key the dictionary does not hold.
MissingKey == [kind |-> "KeyError", jpegImage |-> Absent, pngImage |-> Absent]
EmptyNode == [kind |-> "empty", jpegImage |-> Absent, pngImage |-> Absent]
NoneValue == [kind |-> "None", jpegImage |-> Absent, pngImage |-> Absent]
Payload(jpeg, png) == [kind |-> "node", jpegImage |-> jpeg, pngImage |-> png]

\* Python truth of a node or of None, and of a string or of None.
Truthy(node) == node.kind = "node"
StrTruthy(str) == str # Absent /\ str # ""

ImageNode(sph, assoc, scanpos) ==
    [sphericalRepresentation |-> sph, associatedData3DGuid |-> assoc, scanposGuid |-> scanpos]

\* The image nodes the index builder is checked on.
IndexPayloads == {Payload("good", Absent), Payload(Absent, "good")}
IndexNodes ==
    {ImageNode(sph, assoc, scanpos) :
        sph \in {MissingKey, EmptyNode} \cup IndexPayloads,
        assoc \in GuidValues \cup {Absent},
        scanpos \in GuidValues \cup {Absent}}

\* The image nodes of the documents of a batch: a JPEG panorama keyed by
\* associatedData3DGuid, a PNG panorama keyed by the fallback field, a panorama whose
\* JPEG does not decode, and a spherical representation with neither blob.
BatchNodes ==
    {ImageNode(Payload("good", Absent), "g1", Absent),
     ImageNode(Payload(Absent, "good"), Absent, "g2"),
     ImageNode(Payload("corrupt", Absent), "g1", Absent),
     ImageNode(Payload(Absent, Absent), "g2", Absent)}

\* Poses: translation (x, y, z) and rotation in the source order (w, x, y, z).
PoseOf(guid) ==
    IF guid = "g1"
    THEN [translation |-> <<0, 0, 0>>, rotation |-> <<1, 0, 0, 0>>]
    ELSE [translation |-> <<2, 3, 4>>, rotation |-> <<5, 6, 7, 8>>]

ScanHeader(guid, name) ==
    [guid |-> guid, name |-> name,
     translation |-> PoseOf(guid).translation, rotation |-> PoseOf(guid).rotation]

Headers == {ScanHeader(g, n) : g \in ScanGuids, n \in Names}

Document(scans, imgs) == [scans |-> scans, images2D |-> imgs]
EmptyDocument == Document(<<>>, <<>>)
Documents ==
    {Document(scans, imgs) :
        scans \in SeqUpTo(Headers, MaxScans), imgs \in SeqUpTo(BatchNodes, MaxImages)}

\* The documents of the second container: one scan, joined to a panorama that decodes.
SecondDocuments ==
    {Document(<<ScanHeader("g1", n)>>, <<ImageNode(Payload("good", Absent), "g1", Absent)>>) :
        n \in Names}
    \cup
    {Document(<<ScanHeader("g2", n)>>, <<ImageNode(Payload(Absent, "good"), Absent, "g2")>>) :
        n \in Names}

(***************************************************************************)
(* The index builder.                                                      *)
(***************************************************************************)
\* dict.get(key) and dict[key] = value
Get(dict, key) == IF key \in DOMAIN dict THEN dict[key] ELSE NoneValue

\* Mutant of Put: an entry already there is kept (first write wins).
Put_KeepFirst(dict, key, value) ==
    IF key \in DOMAIN dict
    THEN dict
    ELSE [k \in DOMAIN dict \cup {key} |-> IF k = key THEN value ELSE dict[k]]

Put(dict, key, value) ==
    [k \in DOMAIN dict \cup {key} |-> IF k = key THEN value ELSE dict[k]]

EmptyDict == [k \in {} |-> NoneValue]

\* The guid the loop body settles on for one image node: None stays Absent.
AssociatedGuid(image2D) ==
    IF image2D.associatedData3DGuid # Absent
    THEN image2D.associatedData3DGuid
    ELSE IF image2D.scanposGuid # Absent
         THEN image2D.scanposGuid
         ELSE Absent

\* One pass of the loop over root['images2D'].
IndexBody(image2D, spherical_dict) ==
    LET spherical_representation == image2D.sphericalRepresentation IN
    IF spherical_representation = MissingKey
    THEN spherical_dict
    ELSE IF ~Truthy(spherical_representation)
         THEN spherical_dict
         ELSE IF StrTruthy(AssociatedGuid(image2D))
              THEN Put(spherical_dict, AssociatedGuid(image2D), spherical_representation)
              ELSE spherical_dict

RECURSIVE IndexLoop(_, _, _)
IndexLoop(images2D, image_idx, spherical_dict) ==
    IF image_idx > Len(images2D)
    THEN spherical_dict
    ELSE IndexLoop(images2D, image_idx + 1, IndexBody(images2D[image_idx], spherical_dict))

extract_spherical_representations(images2D) == IndexLoop(images2D, 1, EmptyDict)

(***************************************************************************)
(* The image codec.                                                        *)
(***************************************************************************)
\* spherical_representation["jpegImage"] or spherical_representation["pngImage"]
ImageRef(spherical_representation) ==
    IF spherical_representation.jpegImage # Absent
    THEN [field |-> "jpegImage", blob |-> spherical_representation.jpegImage]
    ELSE [field |-> "pngImage", blob |-> spherical_representation.pngImage]

\* What reading and decoding the blob ends in.
DecodeOutcome(spherical_representation) ==
    LET image_ref == ImageRef(spherical_representation) IN
    IF image_ref.blob = Absent THEN "AttributeError"
    ELSE IF image_ref.blob = "corrupt" THEN "UnidentifiedImageError"
    ELSE "ok"

\* f"{name}.jpeg" and Path(output_path) / image_file_name
ImageFileName(name) == <<name, ".jpeg">>
ImageFullPath(output_path, image_file_name) == output_path \o image_file_name

\* The file img_resized.save writes, and what a save that fails may leave behind.
SavedImage(spherical_representation) ==
    [format |-> "JPEG", width |-> CanvasWidth, height |-> CanvasHeight,
     quality |-> JpegQuality, from |-> ImageRef(spherical_representation).field]
TruncatedImage ==
    [format |-> "truncated", width |-> 0, height |-> 0, quality |-> 0, from |-> Absent]

\* Mutant of WriteFile: the file does not land in the directory.
WriteFile_Lost(dir, name, content) == dir

WriteFile(dir, name, content) ==
    [n \in DOMAIN dir \cup {name} |-> IF n = name THEN content ELSE dir[n]]

(***************************************************************************)
(* The ledger.                                                             *)
(***************************************************************************)
\* str() of a pose component; the components of the model are 0..9.
Digits == <<"0", "1", "2", "3", "4", "5", "6", "7", "8", "9">>
Str(n) == <<Digits[n + 1]>>

\* Python's zero-based subscript.
At(seq, i) == seq[i + 1]

HeaderLine ==
    << <<"image_file_name">>, <<"image_path">>, <<"translation_x">>, <<"translation_y">>,
       <<"translation_z">>, <<"rotation_x">>, <<"rotation_y">>, <<"rotation_z">>,
       <<"rotation_w">> >>

\* Mutant of Row: the rotation is emitted in the order it is stored.
Row_SourceOrder(image_file_name, image_full_path, translation, rotation) ==
    << image_file_name, image_full_path,
       Str(At(translation, 0)), Str(At(translation, 1)), Str(At(translation, 2)),
       Str(At(rotation, 0)), Str(At(rotation, 1)), Str(At(rotation, 2)),
       Str(At(rotation, 3)) >>

\* The line process_e57_file appends for one scan.
Row(image_file_name, image_full_path, translation, rotation) ==
    << image_file_name, image_full_path,
       Str(At(translation, 0)), Str(At(translation, 1)), Str(At(translation, 2)),
       Str(At(rotation, 1)), Str(At(rotation, 2)), Str(At(rotation, 3)),
       Str(At(rotation, 0)) >>

NoCoords == [exists |-> FALSE, lines |-> <<>>]
\* open(path, 'w') then write, and open(path, 'a') then write
WriteNew(line) == [exists |-> TRUE, lines |-> <<line>>]
AppendLine(file, line) == [exists |-> TRUE, lines |-> Append(file.lines, line)]

\* Mutant of EnsureCoords: the ledger is opened for writing whether or not it exists.
EnsureCoords_Rewrite(file) == WriteNew(HeaderLine)

\* The ledger is created, with its header, only where there is none.
EnsureCoords(file) == IF ~file.exists THEN WriteNew(HeaderLine) ELSE file

(***************************************************************************)
(* History kept for the properties; the program does not read it.          *)
(***************************************************************************)
Event(op, f, s) == [op |-> op, file |-> f, scan |-> s]

DataRows(file) == Cardinality({i \in 1..Len(file.lines) : file.lines[i] # HeaderLine})

Ended(status, file) == [status |-> status, rows |-> DataRows(file)]

(***************************************************************************)
(* The state when the window is up and the files have been selected.       *)
(***************************************************************************)
\* A container that is not selected is never read: its content is left out.
DocsFor(path, paths) ==
    IF path \notin Range(paths) THEN {EmptyDocument}
    ELSE IF path = PathA THEN Documents
    ELSE SecondDocuments

InitDisk ==
    /\ out_dir = FALSE
    /\ coords = NoCoords
    /\ images = [n \in {} |-> TruncatedImage]

InitProgram ==
    /\ bar = [maximum |-> BarDefaultMaximum, value |-> 0]
    /\ current_progress = 0
    /\ pc = "idle"
    /\ file_idx = 0
    /\ e57_file = EmptyDocument
    /\ spherical_representations = EmptyDict
    /\ scan_index = 0
    /\ image_result = <<>>
    /\ error = "none"
    /\ runs = 0
    /\ trace = <<>>
    /\ coords0 = NoCoords
    /\ finished = <<>>

IndexIdle ==
    /\ ix_images = <<>>
    /\ ix_dict = EmptyDict
    /\ ix_done = FALSE

Init ==
    /\ file_paths \in SeqUpTo(InputPaths, MaxFiles)
    /\ \E da \in DocsFor(PathA, file_paths), db \in DocsFor(PathB, file_paths) :
           docs = (PathA :> da @@ PathB :> db)
    /\ InitDisk
    /\ InitProgram
    /\ IndexIdle

(***************************************************************************)
(* extract_spherical_images                                                *)
(***************************************************************************)
\* os.path.exists and E57(path)
os_path_exists(path) == path \in DOMAIN docs

\* start_processing calls extract_spherical_images: the empty list returns at once;
\* otherwise the output directory and the ledger are made if they are not there and
\* the progress tracking is set up.
StartRun ==
    /\ pc \in {"idle", "failed"}
    /\ runs < MaxRuns
    /\ runs' = runs + 1
    /\ error' = "none"
    /\ trace' = <<>>
    /\ IF file_paths = <<>>
       THEN /\ pc' = "idle"
            /\ coords0' = coords
            /\ finished' = Append(finished, Ended("empty", coords))
            /\ UNCHANGED <<out_dir, coords, bar, current_progress, file_idx>>
       ELSE /\ out_dir' = TRUE
            /\ coords' = EnsureCoords(coords)
            /\ coords0' = coords'
            /\ current_progress' = 0
            /\ bar' = [bar EXCEPT !.maximum = Len(file_paths)]
            /\ file_idx' = 1
            /\ pc' = "files"
            /\ UNCHANGED finished
    /\ UNCHANGED <<docs, file_paths, images, e57_file, spherical_representations,
                   scan_index, image_result>>
    /\ UNCHANGED index_vars

\* Mutant of SkipFile: a path that does not end with '.e57' ends the run.
SkipFile_Abort ==
    /\ pc = "files"
    /\ file_idx <= Len(file_paths)
    /\ ~EndsWith(file_paths[file_idx], ".e57")
    /\ trace' = Append(trace, Event("skip", file_idx, 0))
    /\ pc' = "failed"
    /\ error' = "ValueError"
    /\ finished' = Append(finished, Ended("failed", coords))
    /\ UNCHANGED <<docs, file_paths, out_dir, coords, images, bar, current_progress,
                   file_idx, e57_file, spherical_representations, scan_index,
                   image_result, runs, coords0>>
    /\ UNCHANGED index_vars

\* A path that does not end with '.e57' is reported and passed over.
SkipFile ==
    /\ pc = "files"
    /\ file_idx <= Len(file_paths)
    /\ ~EndsWith(file_paths[file_idx], ".e57")
    /\ file_idx' = file_idx + 1
    /\ trace' = Append(trace, Event("skip", file_idx, 0))
    /\ UNCHANGED <<docs, file_paths, out_dir, coords, images, bar, current_progress, pc,
                   e57_file, spherical_representations, scan_index, image_result,
                   error, runs, coords0, finished>>
    /\ UNCHANGED index_vars

\* The list is exhausted: extract_spherical_images returns and the window is reset.
FinishRun ==
    /\ pc = "files"
    /\ file_idx > Len(file_paths)
    /\ pc' = "idle"
    /\ finished' = Append(finished, Ended("ok", coords))
    /\ UNCHANGED <<docs, file_paths, out_dir, coords, images, bar, current_progress,
                   file_idx, e57_file, spherical_representations, scan_index,
                   image_result, error, runs, trace, coords0>>
    /\ UNCHANGED index_vars

(***************************************************************************)
(* process_e57_file                                                        *)
(***************************************************************************)
\* An exception leaves process_e57_file and extract_spherical_images: the run is over.
Raise(exception) ==
    /\ pc' = "failed"
    /\ error' = exception
    /\ finished' = Append(finished, Ended("failed", coords'))

\* Mutant of FileNotFound: the missing container is reported and passed over.
FileNotFound_Skipped ==
    /\ pc = "files"
    /\ file_idx <= Len(file_paths)
    /\ EndsWith(file_paths[file_idx], ".e57")
    /\ ~os_path_exists(file_paths[file_idx])
    /\ trace' = Append(trace, Event("notfound", file_idx, 0))
    /\ file_idx' = file_idx + 1
    /\ UNCHANGED <<docs, file_paths, out_dir, coords, images, bar, current_progress, pc,
                   e57_file, spherical_representations, scan_index, image_result,
                   error, runs, coords0, finished>>
    /\ UNCHANGED index_vars

\* The container path is not on disk.
FileNotFound ==
    /\ pc = "files"
    /\ file_idx <= Len(file_paths)
    /\ EndsWith(file_paths[file_idx], ".e57")
    /\ ~os_path_exists(file_paths[file_idx])
    /\ trace' = Append(trace, Event("notfound", file_idx, 0))
    /\ UNCHANGED coords
    /\ Raise("FileNotFoundError")
    /\ UNCHANGED <<docs, file_paths, out_dir, images, bar, current_progress, file_idx,
                   e57_file, spherical_representations, scan_index, image_result,
                   runs, coords0>>
    /\ UNCHANGED index_vars

\* The container is loaded and its index built.
OpenFile ==
    /\ pc = "files"
    /\ file_idx <= Len(file_paths)
    /\ EndsWith(file_paths[file_idx], ".e57")
    /\ os_path_exists(file_paths[file_idx])
    /\ e57_file' = docs[file_paths[file_idx]]
    /\ spherical_representations' = extract_spherical_representations(e57_file'.images2D)
    /\ scan_index' = 0
    /\ pc' = "scans"
    /\ trace' = Append(trace, Event("open", file_idx, 0))
    /\ UNCHANGED <<docs, file_paths, out_dir, coords, images, bar, current_progress,
                   file_idx, image_result, error, runs, coords0, finished>>
    /\ UNCHANGED index_vars

\* e57_file.get_header(scan_index) and e57_file.scan_count
get_header(e57, index) == At(e57.scans, index)
scan_count(e57) == Len(e57.scans)

\* Mutant of SkipScan: a scan is passed over whether or not the index holds its guid.
SkipScan_Unguarded ==
    /\ pc = "scans"
    /\ scan_index < scan_count(e57_file)
    /\ scan_index' = scan_index + 1
    /\ trace' = Append(trace, Event("noimage", file_idx, scan_index))
    /\ UNCHANGED <<docs, file_paths, out_dir, coords, images, bar, current_progress, pc,
                   file_idx, e57_file, spherical_representations, image_result,
                   error, runs, coords0, finished>>
    /\ UNCHANGED index_vars

\* The scan has no spherical representation in the index: nothing is done for it.
SkipScan ==
    /\ pc = "scans"
    /\ scan_index < scan_count(e57_file)
    /\ ~Truthy(Get(spherical_representations, get_header(e57_file, scan_index).guid))
    /\ scan_index' = scan_index + 1
    /\ trace' = Append(trace, Event("noimage", file_idx, scan_index))
    /\ UNCHANGED <<docs, file_paths, out_dir, coords, images, bar, current_progress, pc,
                   file_idx, e57_file, spherical_representations, image_result,
                   error, runs, coords0, finished>>
    /\ UNCHANGED index_vars

\* Mutant of ImageFails: the exception is swallowed and the row is built all the same.
ImageFails_Swallowed(exception) ==
    /\ trace' = Append(trace, Event("imagefailed", file_idx, scan_index))
    /\ image_result' =
           <<ImageFileName(get_header(e57_file, scan_index).name),
             ImageFullPath(OutputPath(file_paths),
                           ImageFileName(get_header(e57_file, scan_index).name))>>
    /\ pc' = "append"
    /\ UNCHANGED <<coords, error, finished>>

\* process_image raises: nothing is returned and no row is built for the scan.
ImageFails(exception) ==
    /\ trace' = Append(trace, Event("imagefailed", file_idx, scan_index))
    /\ UNCHANGED <<coords, image_result>>
    /\ Raise(exception)

\* process_image for a joined scan: the blob does not decode, or the save fails
\* (leaving the target as it was or truncated), or the image is written.
ProcessImage ==
    /\ pc = "scans"
    /\ scan_index < scan_count(e57_file)
    /\ LET scan_header == get_header(e57_file, scan_index)
           spherical_representation == Get(spherical_representations, scan_header.guid)
           image_file_name == ImageFileName(scan_header.name)
           image_full_path == ImageFullPath(OutputPath(file_paths), image_file_name)
       IN /\ Truthy(spherical_representation)
          /\ \/ /\ DecodeOutcome(spherical_representation) # "ok"
                /\ UNCHANGED images
                /\ ImageFails(DecodeOutcome(spherical_representation))
             \/ /\ DecodeOutcome(spherical_representation) = "ok"
                /\ images' \in {images, WriteFile(images, image_file_name, TruncatedImage)}
                /\ ImageFails("OSError")
             \/ /\ DecodeOutcome(spherical_representation) = "ok"
                /\ images' = WriteFile(images, image_file_name,
                                       SavedImage(spherical_representation))
                /\ image_result' = <<image_file_name, image_full_path>>
                /\ trace' = Append(trace, Event("image", file_idx, scan_index))
                /\ pc' = "append"
                /\ UNCHANGED <<coords, error, finished>>
    /\ UNCHANGED <<docs, file_paths, out_dir, bar, current_progress, file_idx, e57_file,
                   spherical_representations, scan_index, runs, coords0>>
    /\ UNCHANGED index_vars

\* The row of the scan whose image was written is appended to the ledger.
AppendRow ==
    /\ pc = "append"
    /\ LET scan_header == get_header(e57_file, scan_index)
       IN coords' = AppendLine(coords, Row(image_result[1], image_result[2],
                                           scan_header.translation, scan_header.rotation))
    /\ scan_index' = scan_index + 1
    /\ pc' = "scans"
    /\ trace' = Append(trace, Event("row", file_idx, scan_index))
    /\ UNCHANGED <<docs, file_paths, out_dir, images, bar, current_progress, file_idx,
                   e57_file, spherical_representations, image_result, error, runs,
                   coords0, finished>>
    /\ UNCHANGED index_vars

\* Mutant of FinishFile: the file is left without waiting for the end of its scans.
FinishFile_Early ==
    /\ pc = "scans"
    /\ current_progress' = current_progress + 1
    /\ bar' = [bar EXCEPT !.value = current_progress']
    /\ file_idx' = file_idx + 1
    /\ pc' = "files"
    /\ trace' = Append(trace, Event("progress", file_idx, 0))
    /\ UNCHANGED <<docs, file_paths, out_dir, coords, images, e57_file,
                   spherical_representations, scan_index, image_result, error, runs,
                   coords0, finished>>
    /\ UNCHANGED index_vars

\* Every scan has been gone through: one unit of progress, and back to the list.
FinishFile ==
    /\ pc = "scans"
    /\ scan_index = scan_count(e57_file)
    /\ current_progress' = current_progress + 1
    /\ bar' = [bar EXCEPT !.value = current_progress']
    /\ file_idx' = file_idx + 1
    /\ pc' = "files"
    /\ trace' = Append(trace, Event("progress", file_idx, 0))
    /\ UNCHANGED <<docs, file_paths, out_dir, coords, images, e57_file,
                   spherical_representations, scan_index, image_result, error, runs,
                   coords0, finished>>
    /\ UNCHANGED index_vars

Next ==
    \/ StartRun
    \/ SkipFile
    \/ FileNotFound
    \/ OpenFile
    \/ SkipScan
    \/ ProcessImage
    \/ AppendRow
    \/ FinishFile
    \/ FinishRun

Spec == Init /\ [][Next]_vars

(***************************************************************************)
(* The index builder on its own: any images2D collection, one call.        *)
(***************************************************************************)
InitIndex ==
    /\ file_paths = <<>>
    /\ docs = (PathA :> EmptyDocument @@ PathB :> EmptyDocument)
    /\ InitDisk
    /\ InitProgram
    /\ ix_images \in SeqUpTo(IndexNodes, MaxIndexImages)
    /\ ix_dict = EmptyDict
    /\ ix_done = FALSE

BuildIndex ==
    /\ ~ix_done
    /\ ix_dict' = extract_spherical_representations(ix_images)
    /\ ix_done' = TRUE
    /\ UNCHANGED ix_images
    /\ UNCHANGED batch_vars

NextIndex == BuildIndex

SpecIndex == InitIndex /\ [][NextIndex]_vars

(***************************************************************************)
(* Properties of the index builder (checked under SpecIndex).              *)
(***************************************************************************)
\* The reference mapping: a node has a spherical payload when the representation is a
\* non-empty node; its join key is associatedData3DGuid when that field is present and
\* the fallback field otherwise; the entry of a guid is the payload of the last node
\* in document order that has a payload and that join key.
HasPayload(node) == node.sphericalRepresentation.kind = "node"

JoinKey(node) ==
    IF node.associatedData3DGuid # Absent THEN node.associatedData3DGuid
    ELSE node.scanposGuid

ReferenceEntry(nodes, g) ==
    LET at == {i \in 1..Len(nodes) : HasPayload(nodes[i]) /\ JoinKey(nodes[i]) = g}
    IN IF at = {} THEN NoneValue ELSE nodes[Max(at)].sphericalRepresentation

\* C6, as stated: the returned index equals the reference mapping at every guid, the
\* empty guid included.
C6_IndexIsReference ==
    ix_done => \A g \in GuidValues : Get(ix_dict, g) = ReferenceEntry(ix_images, g)

\* C6, amended: the returned index equals the reference mapping at every non-empty
\* guid (last write wins, associatedData3DGuid before the fallback), and it never
\* holds an entry for the empty guid: a node whose join key is the empty string
\* contributes no entry.
C6_IndexIsReferenceOnNonEmptyGuids ==
    ix_done =>
        /\ \A g \in GuidValues \ {""} : Get(ix_dict, g) = ReferenceEntry(ix_images, g)
        /\ DOMAIN ix_dict \subseteq GuidValues \ {""}

\* Two nodes with different payloads resolve to the same guid, the first through the
\* fallback field and the second through associatedData3DGuid, and the later one is
\* the entry.
C6_Witness ==
    /\ ix_done
    /\ Len(ix_images) = 2
    /\ HasPayload(ix_images[1]) /\ HasPayload(ix_images[2])
    /\ ix_images[1].associatedData3DGuid = Absent
    /\ ix_images[1].scanposGuid = "g1"
    /\ ix_images[2].associatedData3DGuid = "g1"
    /\ ix_images[1].sphericalRepresentation # ix_images[2].sphericalRepresentation
    /\ DOMAIN ix_dict = {"g1"}
    /\ ix_dict["g1"] = ix_images[2].sphericalRepresentation

(***************************************************************************)
(* Properties of the batch (checked under Spec).  They read the history:   *)
(* trace holds the steps of the current run, coords0 the ledger as the run *)
(* found or created it, finished the runs that have ended.                 *)
(***************************************************************************)
Events(op) == SelectSeq(trace, LAMBDA e : e.op = op)
EventsOfFile(op, f) == {i \in DOMAIN trace : trace[i].op = op /\ trace[i].file = f}
Count(op, f, s) == Cardinality({i \in DOMAIN trace : trace[i] = Event(op, f, s)})

\* The lines the current run has appended, and the data lines of the whole ledger.
NewLines == SubSeq(coords.lines, Len(coords0.lines) + 1, Len(coords.lines))
DataLines == {i \in 1..Len(coords.lines) : coords.lines[i] # HeaderLine}

\* The document and the header behind an entry of the list that was opened.
DocumentAt(f) == docs[file_paths[f]]
HeaderAt(f, s) == DocumentAt(f).scans[s + 1]

\* The scans of a document whose guid has a non-empty entry in the document's index.
JoinedScans(doc) ==
    LET index == extract_spherical_representations(doc.images2D)
    IN {s \in 0..(Len(doc.scans) - 1) :
            /\ doc.scans[s + 1].guid \in DOMAIN index
            /\ index[doc.scans[s + 1].guid].kind = "node"}

IsContainerPath(path) == path[Len(path)] = ".e57"
RunEndedOk == pc = "idle" /\ Len(finished) >= 1 /\ finished[Len(finished)].status = "ok"

\* C1: for every document processed to completion, each scan whose guid has a
\* non-empty entry in the document's index has exactly one image write and one row,
\* every other scan has none, so the rows of the document number its joined scans;
\* the ledger has grown by exactly the rows appended.
C1_RowsPerDocument ==
    /\ \A i \in DOMAIN trace :
           trace[i].op = "progress" =>
               LET f == trace[i].file
                   doc == DocumentAt(f)
               IN /\ Cardinality(EventsOfFile("row", f)) = Cardinality(JoinedScans(doc))
                  /\ \A s \in 0..(Len(doc.scans) - 1) :
                         /\ Count("row", f, s) = IF s \in JoinedScans(doc) THEN 1 ELSE 0
                         /\ Count("image", f, s) = IF s \in JoinedScans(doc) THEN 1 ELSE 0
    /\ Len(NewLines) = Len(Events("row"))

\* A document of two scans was processed to completion: the first scan has no entry
\* in the index and was passed over, the second was joined and has its row.
C1_Witness ==
    \E i \in DOMAIN trace :
        /\ trace[i].op = "progress"
        /\ Len(DocumentAt(trace[i].file).scans) = 2
        /\ JoinedScans(DocumentAt(trace[i].file)) = {1}
        /\ Count("noimage", trace[i].file, 0) = 1
        /\ Count("row", trace[i].file, 1) = 1
        /\ Len(NewLines) = 1

\* C3: a row is appended only right after the image write of the same scan completed;
\* a scan whose image step failed has no row, and the failure is the last thing the
\* run did; the ledger holds no line beyond the rows appended.
C3_NoRowWithoutImage ==
    /\ \A i \in DOMAIN trace :
           trace[i].op = "row" =>
               i > 1 /\ trace[i - 1] = Event("image", trace[i].file, trace[i].scan)
    /\ \A i \in DOMAIN trace :
           trace[i].op = "imagefailed" =>
               /\ Count("row", trace[i].file, trace[i].scan) = 0
               /\ i = Len(trace)
               /\ pc = "failed"
    /\ Len(NewLines) = Len(Events("row"))

\* The image step of the second scan of a document failed after the first scan's row
\* had been appended: the ledger holds that one row only.
C3_Witness ==
    /\ pc = "failed"
    /\ trace # <<>>
    /\ trace[Len(trace)].op = "imagefailed"
    /\ trace[Len(trace)].scan = 1
    /\ Count("row", trace[Len(trace)].file, 0) = 1
    /\ Len(NewLines) = 1

IsPrefix(s, t) == Len(s) <= Len(t) /\ SubSeq(t, 1, Len(s)) = s

\* The data rows a run that has ended added to the ledger.
RowsAdded(k) == finished[k].rows - (IF k = 1 THEN 0 ELSE finished[k - 1].rows)

C2_HeaderFirstAndOnce ==
    /\ coords.exists =>
           /\ Len(coords.lines) >= 1
           /\ coords.lines[1] = HeaderLine
           /\ \A i \in 2..Len(coords.lines) : coords.lines[i] # HeaderLine
    /\ \A k \in 1..(Len(finished) - 1) :
           (finished[k].status = "ok" /\ finished[k + 1].status = "ok") =>
               RowsAdded(k + 1) = RowsAdded(k)
    /\ (Len(finished) >= 2 /\ finished[1].status = "ok" /\ finished[2].status = "ok") =>
           finished[2].rows = 2 * finished[1].rows

C2_OnlyAppended ==
    /\ coords.exists => (coords'.exists /\ IsPrefix(coords.lines, coords'.lines))
    /\ (~coords.exists /\ coords'.exists) => coords'.lines = <<HeaderLine>>
    /\ (~coords.exists /\ pc \in {"idle", "failed"} /\ file_paths # <<>> /\ runs' # runs) =>
           coords'.exists

\* C2: whenever coords.csv exists its first line is the header and no other line is;
\* a step that finds the file only appends to it, and a run that finds none creates
\* it holding the header alone; two successive successful runs of the same selection
\* add the same number of rows, so after the first two the ledger holds twice the
\* rows of the first.
C2_HeaderStableAcrossRuns == []C2_HeaderFirstAndOnce /\ [][C2_OnlyAppended]_vars

\* Two successful runs against the same output directory, the first of which
\* appended a row: one header, then twice the rows.
C2_Witness ==
    /\ Len(finished) = 2
    /\ finished[1].status = "ok" /\ finished[2].status = "ok"
    /\ finished[1].rows >= 1
    /\ Len(coords.lines) = 1 + 2 * finished[1].rows
    /\ coords.lines[1] = HeaderLine

C4_Halted ==
    /\ \A i \in DOMAIN trace :
           trace[i].op = "notfound" =>
               /\ i = Len(trace)
               /\ pc = "failed" /\ error = "FileNotFoundError"
               /\ file_idx = trace[i].file
               /\ IsContainerPath(file_paths[file_idx])
               /\ file_paths[file_idx] \notin ContainerFiles
    /\ (pc = "failed" /\ error = "FileNotFoundError") =>
           /\ trace # <<>> /\ trace[Len(trace)].op = "notfound"
           /\ \A i \in DOMAIN trace : trace[i].file <= file_idx
           /\ Len(NewLines) = Len(Events("row"))
           /\ \A i \in DOMAIN trace :
                  trace[i].op = "image" =>
                      ImageFileName(HeaderAt(trace[i].file, trace[i].scan).name)
                          \in DOMAIN images
           /\ current_progress = Len(Events("progress"))

C4_NothingAfterFailure ==
    (pc = "failed" /\ error = "FileNotFoundError") =>
        /\ runs' = runs + 1
        /\ coords' = coords
        /\ images' = images
        /\ bar'.value = bar.value

\* C4: a container path that is not on disk ends the run with FileNotFoundError: the
\* failure is the last step of the run, no entry after it is touched, the rows and
\* images of the earlier entries stay, and the only step left is the start of another
\* run, which leaves the ledger, the images and the progress value as they are.
C4_NotFoundHaltsBatch == []C4_Halted /\ [][C4_NothingAfterFailure]_vars

\* The second of three entries is missing: the first entry's row and image are in
\* place and the third entry, a container that is on disk, was never opened.
C4_Witness ==
    /\ pc = "failed" /\ error = "FileNotFoundError"
    /\ Len(file_paths) = 3
    /\ file_idx = 2
    /\ file_paths[3] \in ContainerFiles
    /\ EventsOfFile("row", 1) # {}
    /\ EventsOfFile("open", 3) = {}
    /\ DataRows(coords) >= 1
    /\ DOMAIN images # {}

C5_SkipsKeepTrace ==
    /\ \A f \in 1..Len(file_paths) :
           ~IsContainerPath(file_paths[f]) =>
               \A i \in DOMAIN trace : trace[i].file = f => trace[i] = Event("skip", f, 0)
    /\ RunEndedOk =>
           \A f \in 1..Len(file_paths) :
               IF IsContainerPath(file_paths[f])
               THEN Cardinality(EventsOfFile("open", f)) = 1
               ELSE Cardinality(EventsOfFile("skip", f)) = 1

C5_SkipChangesNothing ==
    (/\ pc = "files"
     /\ file_idx <= Len(file_paths)
     /\ ~IsContainerPath(file_paths[file_idx])) =>
        /\ out_dir' = out_dir /\ coords' = coords /\ images' = images
        /\ bar' = bar /\ current_progress' = current_progress
        /\ file_idx' = file_idx + 1
        /\ pc' = "files" /\ error' = error

\* C5: the step taken at an entry that does not end with '.e57' leaves the output
\* directory, the ledger, the images and the progress as they are and moves on to the
\* next entry; such an entry has no other step, and in a run that ends without error
\* every container entry, also one after a skipped entry, is opened.
C5_NonContainerSkipped == []C5_SkipsKeepTrace /\ [][C5_SkipChangesNothing]_vars

\* A run ended without error whose first entry is a text file and whose second is a
\* container that produced a row.
C5_Witness ==
    /\ RunEndedOk
    /\ Len(file_paths) >= 2
    /\ file_paths[1] = PathText
    /\ Count("skip", 1, 0) = 1
    /\ EventsOfFile("row", 2) # {}
    /\ DataRows(coords) >= 1

\* The field of a ledger line under a column of the header.
Column(name) == CHOOSE i \in 1..Len(HeaderLine) : HeaderLine[i] = <<name>>
Field(line, name) == line[Column(name)]

\* The line carries the pose of the header: translation in order, rotation (w, x, y, z)
\* emitted as (x, y, z, w).
CarriesPose(line, header) ==
    /\ Field(line, "translation_x") = Str(header.translation[1])
    /\ Field(line, "translation_y") = Str(header.translation[2])
    /\ Field(line, "translation_z") = Str(header.translation[3])
    /\ Field(line, "rotation_x") = Str(header.rotation[2])
    /\ Field(line, "rotation_y") = Str(header.rotation[3])
    /\ Field(line, "rotation_z") = Str(header.rotation[4])
    /\ Field(line, "rotation_w") = Str(header.rotation[1])

\* C7: the k-th line a run appends carries the pose of the scan of its k-th row step,
\* rotation (r0, r1, r2, r3) emitted as rotation_x = r1, rotation_y = r2,
\* rotation_z = r3, rotation_w = r0 and translation in order; a scan stored with
\* rotation (1, 0, 0, 0) reads 0, 0, 0, 1; every data line of the ledger, of this run
\* or an earlier one, carries the pose of some header in this way.
C7_RotationReordered ==
    /\ Len(NewLines) = Len(Events("row"))
    /\ \A k \in 1..Len(NewLines) :
           LET header == HeaderAt(Events("row")[k].file, Events("row")[k].scan)
           IN /\ CarriesPose(NewLines[k], header)
              /\ header.rotation = <<1, 0, 0, 0>> =>
                     /\ Field(NewLines[k], "rotation_x") = <<"0">>
                     /\ Field(NewLines[k], "rotation_y") = <<"0">>
                     /\ Field(NewLines[k], "rotation_z") = <<"0">>
                     /\ Field(NewLines[k], "rotation_w") = <<"1">>
    /\ \A i \in DataLines : \E header \in Headers : CarriesPose(coords.lines[i], header)

\* A row was appended for a scan whose rotation has four different components, and
\* one for a scan stored with the identity rotation (1, 0, 0, 0).
C7_Witness ==
    /\ \E k \in 1..Len(Events("row")) :
           /\ HeaderAt(Events("row")[k].file, Events("row")[k].scan).rotation = <<5, 6, 7, 8>>
           /\ k <= Len(NewLines)
           /\ Field(NewLines[k], "rotation_w") = <<"5">>
           /\ Field(NewLines[k], "rotation_x") = <<"6">>
    /\ \E k \in 1..Len(Events("row")) :
           /\ HeaderAt(Events("row")[k].file, Events("row")[k].scan).rotation = <<1, 0, 0, 0>>
           /\ k <= Len(NewLines)
           /\ Field(NewLines[k], "rotation_w") = <<"1">>

\* A first run into the empty output directory has ended without error.
FirstRunEndedOk ==
    pc = "idle" /\ runs = 1 /\ Len(finished) = 1 /\ finished[1].status = "ok"

\* C8, as stated: after a batch that completes without error into an initially empty
\* output directory there are as many image files as data rows, also when joined
\* scans share a name.
C8_OneImagePerRow ==
    FirstRunEndedOk => Cardinality(DOMAIN images) = DataRows(coords)

\* C8, amended: after such a batch there are as many image files as there are
\* different image file names among the data rows, each a finished 8192x4096 JPEG;
\* that is at most the number of rows, and equal to it when no two rows share a name.
C8_OneImagePerName ==
    FirstRunEndedOk =>
        /\ DOMAIN images = {coords.lines[i][Column("image_file_name")] : i \in DataLines}
        /\ Cardinality(DOMAIN images) <= DataRows(coords)
        /\ \A n \in DOMAIN images :
               /\ images[n].format = "JPEG"
               /\ images[n].width = CanvasWidth /\ images[n].height = CanvasHeight
        /\ (\A i, j \in DataLines :
                i # j => coords.lines[i][Column("image_file_name")]
                             # coords.lines[j][Column("image_file_name")])
               => Cardinality(DOMAIN images) = DataRows(coords)

\* Three rows, two image files: two scans of one document have different names and a
\* scan of the next document shares one of them.
C8_Witness ==
    /\ FirstRunEndedOk
    /\ DataRows(coords) = 3
    /\ Cardinality(DOMAIN images) = 2
    /\ Cardinality(EventsOfFile("row", 1)) = 2
    /\ Cardinality(EventsOfFile("row", 2)) = 1

StepsOfScans == {"noimage", "image", "row", "imagefailed"}

\* C9: the steps of a run follow the list: nothing of an entry happens after a step of
\* a later entry, an entry is opened before and reports its progress after all its
\* other steps, progress is reported only when every scan of the document has been
\* passed over or has its row, and a later container is opened only after the
\* progress of the earlier one; within a document the scans are taken in increasing
\* order, a row comes right after the image write of its scan, and the lines appended
\* to the ledger are the rows in that order.
C9_Sequential ==
    /\ \A i, j \in DOMAIN trace :
           i < j =>
               /\ trace[i].file <= trace[j].file
               /\ trace[i].file = trace[j].file =>
                      /\ trace[j].op # "open"
                      /\ trace[i].op # "progress"
                      /\ (trace[i].op \in StepsOfScans /\ trace[j].op \in StepsOfScans) =>
                             trace[i].scan <= trace[j].scan
                      /\ (trace[i].op = "row" /\ trace[j].op = "row") =>
                             trace[i].scan < trace[j].scan
               /\ (trace[i].op = "open" /\ trace[i].file < trace[j].file) =>
                      \E k \in (i + 1)..(j - 1) :
                          trace[k] = Event("progress", trace[i].file, 0)
    /\ \A i \in DOMAIN trace :
           trace[i].op = "progress" =>
               \A s \in 0..(Len(DocumentAt(trace[i].file).scans) - 1) :
                   \E j \in 1..(i - 1) :
                       /\ trace[j].file = trace[i].file /\ trace[j].scan = s
                       /\ trace[j].op \in {"noimage", "row"}
    /\ \A i \in DOMAIN trace :
           trace[i].op = "row" =>
               i > 1 /\ trace[i - 1].op = "image" /\ trace[i - 1].scan = trace[i].scan
    /\ Len(NewLines) = Len(Events("row"))
    /\ \A k \in 1..Len(NewLines) :
           LET header == HeaderAt(Events("row")[k].file, Events("row")[k].scan)
           IN /\ NewLines[k][Column("image_file_name")] = ImageFileName(header.name)
              /\ NewLines[k][Column("translation_x")] = Str(header.translation[1])

\* Two containers in a row: both scans of the first have their rows, then its
\* progress, and only then the second is opened and gets its row.
C9_Witness ==
    /\ RunEndedOk
    /\ Len(file_paths) = 2
    /\ Cardinality(EventsOfFile("row", 1)) = 2
    /\ Cardinality(EventsOfFile("row", 2)) = 1
    /\ Len(Events("progress")) = 2

\* C10, as stated: during a run the progress bar's maximum is the length of the list
\* and its value is the number of containers fully processed so far in the run,
\* never more than the maximum; at the end of a run without error the value is the
\* number of entries ending with '.e57'.
C10_ProgressValue ==
    /\ pc \in {"files", "scans", "append"} =>
           /\ bar.maximum = Len(file_paths)
           /\ bar.value = Len(Events("progress"))
           /\ bar.value <= bar.maximum
    /\ RunEndedOk =>
           bar.value = Cardinality({f \in 1..Len(file_paths) : IsContainerPath(file_paths[f])})

====
